---- MODULE Spec2Model ----
(***************************************************************************)
(* Model of the Google Docs MCP server: the stdio listing and tool-call    *)
(* handlers (src/src/index.ts), the HTTP JSON-RPC handler                  *)
(* (openai-mcp-server.js) and the lazily initialised GoogleDocsService     *)
(* they call, in its two versions (google-docs-service.ts with the seven   *)
(* document methods, and the extended class with the drive methods).  A    *)
(* process runs exactly one of the two transports with one of the two      *)
(* classes.  Handlers are async functions: every action below is the code  *)
(* that runs between two awaits, so calls interleave at the awaits.        *)
(***************************************************************************)
EXTENDS Integers, Sequences, FiniteSets, Bags, TLC

\* Largest number of tool calls suspended at an await at the same time.
MaxCalls == 2

\* Largest number of GoogleDocsService constructions that are counted.
MaxInstances == 2

\* The JavaScript value `undefined` (an absent field or argument).
Undefined == "<undefined>"

\* String conversion in a template literal: `${v}`.
Str(v) == IF v = Undefined THEN "undefined" ELSE v

(***************************************************************************)
(* Operation catalogs                                                      *)
(***************************************************************************)

\* const tools: Tool[] of the stdio server, in registration order.  An
\* object is a record; an optional key that an entry leaves out is absent
\* from its record.
tools ==
  <<
    [name |-> "docs_create_document",
     description |-> "Create a new Google Doc",
     inputSchema |->
      [type |-> "object",
       properties |->
        [title |-> [type |-> "string", description |-> "Document title"]],
       required |-> <<"title">>]],
    [name |-> "docs_get_document",
     description |-> "Get the content of a Google Doc",
     inputSchema |->
      [type |-> "object",
       properties |->
        [documentId |-> [type |-> "string", description |-> "Google Doc ID"]],
       required |-> <<"documentId">>]],
    [name |-> "docs_append_text",
     description |-> "Append text to a Google Doc",
     inputSchema |->
      [type |-> "object",
       properties |->
        [documentId |-> [type |-> "string", description |-> "Google Doc ID"],
         text |-> [type |-> "string", description |-> "Text to append"]],
       required |-> <<"documentId", "text">>]],
    [name |-> "docs_replace_text",
     description |-> "Find and replace text in a Google Doc",
     inputSchema |->
      [type |-> "object",
       properties |->
        [documentId |-> [type |-> "string", description |-> "Google Doc ID"],
         findText |-> [type |-> "string", description |-> "Text to find"],
         replaceWithText |-> [type |-> "string", description |-> "Text to replace with"]],
       required |-> <<"documentId", "findText", "replaceWithText">>]],
    [name |-> "docs_list_documents",
     description |-> "List your Google Docs",
     inputSchema |->
      [type |-> "object",
       properties |->
        [maxResults |-> [type |-> "number", description |-> "Maximum number of documents to return (default: 10)", default |-> 10]]]],
    [name |-> "docs_delete_document",
     description |-> "Delete a Google Doc",
     inputSchema |->
      [type |-> "object",
       properties |->
        [documentId |-> [type |-> "string", description |-> "Google Doc ID to delete"]],
       required |-> <<"documentId">>]],
    [name |-> "docs_export_pdf",
     description |-> "Export a Google Doc as PDF",
     inputSchema |->
      [type |-> "object",
       properties |->
        [documentId |-> [type |-> "string", description |-> "Google Doc ID"],
         outputPath |-> [type |-> "string", description |-> "Path to save the PDF file"]],
       required |-> <<"documentId", "outputPath">>]],
    [name |-> "drive_list_files",
     description |-> "List all files in Google Drive",
     inputSchema |->
      [type |-> "object",
       properties |->
        [maxResults |-> [type |-> "number", description |-> "Maximum number of files to return (default: 50)", default |-> 50],
         mimeType |-> [type |-> "string", description |-> "Filter by MIME type (optional)"],
         query |-> [type |-> "string", description |-> "Custom search query (optional)"],
         orderBy |-> [type |-> "string", description |-> "Order results by field (default: modifiedTime desc)", default |-> "modifiedTime desc"]]]],
    [name |-> "drive_get_file",
     description |-> "Get file metadata and content",
     inputSchema |->
      [type |-> "object",
       properties |->
        [fileId |-> [type |-> "string", description |-> "Google Drive file ID"],
         fields |-> [type |-> "string", description |-> "Fields to return (optional)"]],
       required |-> <<"fileId">>]],
    [name |-> "drive_create_file",
     description |-> "Create a new file in Google Drive",
     inputSchema |->
      [type |-> "object",
       properties |->
        [name |-> [type |-> "string", description |-> "File name"],
         mimeType |-> [type |-> "string", description |-> "MIME type of the file"],
         content |-> [type |-> "string", description |-> "File content (optional)"],
         parents |-> [type |-> "array", items |-> [type |-> "string"], description |-> "Parent folder IDs (optional)"]],
       required |-> <<"name", "mimeType">>]],
    [name |-> "drive_update_file",
     description |-> "Update file content or metadata",
     inputSchema |->
      [type |-> "object",
       properties |->
        [fileId |-> [type |-> "string", description |-> "Google Drive file ID"],
         name |-> [type |-> "string", description |-> "New file name (optional)"],
         content |-> [type |-> "string", description |-> "New file content (optional)"],
         addParents |-> [type |-> "array", items |-> [type |-> "string"], description |-> "Add to these folders (optional)"],
         removeParents |-> [type |-> "array", items |-> [type |-> "string"], description |-> "Remove from these folders (optional)"]],
       required |-> <<"fileId">>]],
    [name |-> "drive_delete_file",
     description |-> "Delete a file from Google Drive",
     inputSchema |->
      [type |-> "object",
       properties |->
        [fileId |-> [type |-> "string", description |-> "Google Drive file ID"]],
       required |-> <<"fileId">>]],
    [name |-> "drive_copy_file",
     description |-> "Copy a file in Google Drive",
     inputSchema |->
      [type |-> "object",
       properties |->
        [fileId |-> [type |-> "string", description |-> "Source file ID"],
         name |-> [type |-> "string", description |-> "Name for the copied file (optional)"],
         parents |-> [type |-> "array", items |-> [type |-> "string"], description |-> "Destination folder IDs (optional)"]],
       required |-> <<"fileId">>]],
    [name |-> "drive_move_file",
     description |-> "Move a file to different folders",
     inputSchema |->
      [type |-> "object",
       properties |->
        [fileId |-> [type |-> "string", description |-> "File ID to move"],
         addParents |-> [type |-> "array", items |-> [type |-> "string"], description |-> "Add to these folders"],
         removeParents |-> [type |-> "array", items |-> [type |-> "string"], description |-> "Remove from these folders"]],
       required |-> <<"fileId", "addParents", "removeParents">>]],
    [name |-> "drive_list_permissions",
     description |-> "List file permissions",
     inputSchema |->
      [type |-> "object",
       properties |->
        [fileId |-> [type |-> "string", description |-> "Google Drive file ID"]],
       required |-> <<"fileId">>]],
    [name |-> "drive_create_permission",
     description |-> "Share a file with users",
     inputSchema |->
      [type |-> "object",
       properties |->
        [fileId |-> [type |-> "string", description |-> "Google Drive file ID"],
         emailAddress |-> [type |-> "string", description |-> "Email address to share with"],
         role |-> [type |-> "string", enum |-> <<"reader", "writer", "commenter", "owner">>, description |-> "Permission role"],
         type |-> [type |-> "string", enum |-> <<"user", "group", "domain", "anyone">>, description |-> "Permission type"]],
       required |-> <<"fileId", "role", "type">>]],
    [name |-> "drive_delete_permission",
     description |-> "Remove file permissions",
     inputSchema |->
      [type |-> "object",
       properties |->
        [fileId |-> [type |-> "string", description |-> "Google Drive file ID"],
         permissionId |-> [type |-> "string", description |-> "Permission ID to remove"]],
       required |-> <<"fileId", "permissionId">>]],
    [name |-> "drive_list_revisions",
     description |-> "List file revisions/versions",
     inputSchema |->
      [type |-> "object",
       properties |->
        [fileId |-> [type |-> "string", description |-> "Google Drive file ID"]],
       required |-> <<"fileId">>]],
    [name |-> "drive_get_revision",
     description |-> "Get specific file revision",
     inputSchema |->
      [type |-> "object",
       properties |->
        [fileId |-> [type |-> "string", description |-> "Google Drive file ID"],
         revisionId |-> [type |-> "string", description |-> "Revision ID"]],
       required |-> <<"fileId", "revisionId">>]],
    [name |-> "drive_delete_revision",
     description |-> "Delete a file revision",
     inputSchema |->
      [type |-> "object",
       properties |->
        [fileId |-> [type |-> "string", description |-> "Google Drive file ID"],
         revisionId |-> [type |-> "string", description |-> "Revision ID to delete"]],
       required |-> <<"fileId", "revisionId">>]],
    [name |-> "drive_list_comments",
     description |-> "List file comments",
     inputSchema |->
      [type |-> "object",
       properties |->
        [fileId |-> [type |-> "string", description |-> "Google Drive file ID"],
         maxResults |-> [type |-> "number", description |-> "Maximum number of comments (default: 100)", default |-> 100]],
       required |-> <<"fileId">>]],
    [name |-> "drive_create_comment",
     description |-> "Add a comment to a file",
     inputSchema |->
      [type |-> "object",
       properties |->
        [fileId |-> [type |-> "string", description |-> "Google Drive file ID"],
         content |-> [type |-> "string", description |-> "Comment content"],
         quotedFileContent |-> [type |-> "string", description |-> "Quoted text from the file (optional)"]],
       required |-> <<"fileId", "content">>]],
    [name |-> "drive_delete_comment",
     description |-> "Delete a file comment",
     inputSchema |->
      [type |-> "object",
       properties |->
        [fileId |-> [type |-> "string", description |-> "Google Drive file ID"],
         commentId |-> [type |-> "string", description |-> "Comment ID to delete"]],
       required |-> <<"fileId", "commentId">>]],
    [name |-> "drive_list_replies",
     description |-> "List replies to a comment",
     inputSchema |->
      [type |-> "object",
       properties |->
        [fileId |-> [type |-> "string", description |-> "Google Drive file ID"],
         commentId |-> [type |-> "string", description |-> "Comment ID"]],
       required |-> <<"fileId", "commentId">>]],
    [name |-> "drive_create_reply",
     description |-> "Reply to a comment",
     inputSchema |->
      [type |-> "object",
       properties |->
        [fileId |-> [type |-> "string", description |-> "Google Drive file ID"],
         commentId |-> [type |-> "string", description |-> "Comment ID to reply to"],
         content |-> [type |-> "string", description |-> "Reply content"]],
       required |-> <<"fileId", "commentId", "content">>]],
    [name |-> "drive_delete_reply",
     description |-> "Delete a reply to a comment",
     inputSchema |->
      [type |-> "object",
       properties |->
        [fileId |-> [type |-> "string", description |-> "Google Drive file ID"],
         commentId |-> [type |-> "string", description |-> "Comment ID"],
         replyId |-> [type |-> "string", description |-> "Reply ID to delete"]],
       required |-> <<"fileId", "commentId", "replyId">>]]
  >>

\* result.tools of the HTTP server's tools/list, in listing order.
httpTools ==
  <<
    [name |-> "docs_create_document",
     description |-> "Create a new Google Doc",
     inputSchema |->
      [type |-> "object",
       properties |->
        [title |-> [type |-> "string", description |-> "Document title"]],
       required |-> <<"title">>]],
    [name |-> "docs_get_document",
     description |-> "Get the content of a Google Doc",
     inputSchema |->
      [type |-> "object",
       properties |->
        [documentId |-> [type |-> "string", description |-> "Google Doc ID"]],
       required |-> <<"documentId">>]],
    [name |-> "docs_append_text",
     description |-> "Append text to a Google Doc",
     inputSchema |->
      [type |-> "object",
       properties |->
        [documentId |-> [type |-> "string", description |-> "Google Doc ID"],
         text |-> [type |-> "string", description |-> "Text to append"]],
       required |-> <<"documentId", "text">>]],
    [name |-> "docs_replace_text",
     description |-> "Find and replace text in a Google Doc",
     inputSchema |->
      [type |-> "object",
       properties |->
        [documentId |-> [type |-> "string", description |-> "Google Doc ID"],
         findText |-> [type |-> "string", description |-> "Text to find"],
         replaceWithText |-> [type |-> "string", description |-> "Text to replace with"]],
       required |-> <<"documentId", "findText", "replaceWithText">>]],
    [name |-> "docs_list_documents",
     description |-> "List your Google Docs",
     inputSchema |->
      [type |-> "object",
       properties |->
        [maxResults |-> [type |-> "number", description |-> "Maximum number of documents to return (default: 10)", default |-> 10]]]],
    [name |-> "docs_delete_document",
     description |-> "Delete a Google Doc",
     inputSchema |->
      [type |-> "object",
       properties |->
        [documentId |-> [type |-> "string", description |-> "Google Doc ID to delete"]],
       required |-> <<"documentId">>]],
    [name |-> "docs_export_pdf",
     description |-> "Export a Google Doc as PDF",
     inputSchema |->
      [type |-> "object",
       properties |->
        [documentId |-> [type |-> "string", description |-> "Google Doc ID"],
         outputPath |-> [type |-> "string", description |-> "Path to save the PDF file"]],
       required |-> <<"documentId", "outputPath">>]]
  >>

Range(s) == { s[i] : i \in DOMAIN s }

\* The operation names of a sequence of catalog entries.
Names(entries) == Range([i \in DOMAIN entries |-> entries[i].name])

\* The registered operation names of the two servers.
StdioNames == Names(tools)
HttpNames == Names(httpTools)

\* The operation names a transport advertises.
Catalog(t) == IF t = "stdio" THEN StdioNames ELSE HttpNames

(***************************************************************************)
(* Requests                                                                *)
(***************************************************************************)

\* params.arguments: absent, or a mapping from parameter names to values.
NoArguments == [defined |-> FALSE]
SomeArguments ==
  [defined |-> TRUE,
   map |-> [k \in {"documentId", "title", "outputPath"} |->
              CASE k = "title" -> "Report"
                [] k = "outputPath" -> "/no/such/dir/out.pdf"
                [] OTHER -> "doc1"]]
ArgsPool == { NoArguments, SomeArguments }

\* args?.key
Get(args, key) ==
  IF ~args.defined THEN Undefined
  ELSE IF key \in DOMAIN args.map THEN args.map[key] ELSE Undefined

\* Operation names the requests are drawn from: two known to both
\* transports (one of them writes a local file), one known to the stdio
\* transport only, one known to neither, and the absent name.
NamePool == { "docs_get_document", "docs_export_pdf", "drive_list_files",
              "docs_frobnicate", Undefined }
VersionPool == { "2.0", "1.0", Undefined }
IdPool == { "id1", "id2" }
MethodPool == { "initialize", "tools/list", "tools/call", "resources/list" }

\* Every request of POST /mcp over the pools: the route and the fields of
\* req.body.
HttpRequests ==
  { [route |-> "POST /mcp", jsonrpc |-> v, id |-> i, method |-> m,
     params |-> p, name |-> n, args |-> a] :
      v \in VersionPool, i \in IdPool, m \in MethodPool, p \in BOOLEAN,
      n \in NamePool, a \in ArgsPool }

\* The bodies the requests are drawn from.  A field the handler never reads
\* on the body's path is held at one value: without params there is no name
\* and no arguments, only tools/call reads params, and only a name of the
\* HTTP catalog has its arguments read.  A body without a version is any
\* method without params or a complete tool call, a body with the wrong
\* version a complete tool call.  The export is requested with its
\* arguments.  The second id is used by the tool call without arguments, so
\* that requests with different ids can be in flight together.
HttpRequestPool ==
  { r \in HttpRequests :
      /\ (~r.params) => (r.name = Undefined /\ r.args = NoArguments)
      /\ (r.method # "tools/call") => ~r.params
      /\ r.args.defined => (r.name \in HttpNames)
      /\ (r.name = "docs_export_pdf") => r.args.defined
      /\ (r.jsonrpc # "2.0" /\ r.params) =>
            (r.name = "docs_get_document" /\ r.args.defined)
      /\ (r.jsonrpc = "1.0") => r.params
      /\ (r.id = "id2") <=>
            (r.jsonrpc = "2.0" /\ r.params /\ r.name = "docs_get_document"
               /\ ~r.args.defined) }

\* request.params of a CallTool request: the SDK has validated the envelope
\* and the name is a string; the handler never sees the JSON-RPC id.  Only
\* the document tools are called with arguments (drive_list_files has no
\* required parameter).
StdioRequestPool ==
  { [r EXCEPT !.route = "stdio"] :
      r \in { q \in HttpRequests :
                /\ q.jsonrpc = "2.0" /\ q.id = "id1" /\ q.method = "tools/call"
                /\ q.params /\ q.name # Undefined
                /\ (q.name = "docs_export_pdf") => q.args.defined
                /\ q.args.defined => (q.name \in HttpNames) } }

\* request of a ListTools request: it has no params the handler reads.
StdioListRequest ==
  [route |-> "stdio", jsonrpc |-> "2.0", id |-> "id1", method |-> "tools/list",
   params |-> FALSE, name |-> Undefined, args |-> NoArguments]

\* A GET request: it has no body.
GetRequest(route) ==
  [route |-> route, jsonrpc |-> Undefined, id |-> Undefined,
   method |-> Undefined, params |-> FALSE, name |-> Undefined,
   args |-> NoArguments]

\* Values of new Date().toISOString().
Timestamps == { "2026-01-01T00:00:00.000Z" }

(***************************************************************************)
(* Dispatch tables: the provider method invoked for a name, with the       *)
(* positional arguments taken from the argument mapping.                   *)
(***************************************************************************)

NoCall == [method |-> "none", args |-> <<>>]

Invoke(m, args, keys) ==
  [method |-> m, args |-> [i \in DOMAIN keys |-> Get(args, keys[i])]]

\* switch (name) of the stdio CallTool handler.
StdioDispatch(name, args) ==
  CASE name = "docs_create_document" -> Invoke("createDocument", args, <<"title">>)
    [] name = "docs_get_document" -> Invoke("getDocument", args, <<"documentId">>)
    [] name = "docs_append_text" -> Invoke("appendText", args, <<"documentId", "text">>)
    [] name = "docs_replace_text" ->
         Invoke("replaceText", args, <<"documentId", "findText", "replaceWithText">>)
    [] name = "docs_list_documents" -> Invoke("listDocuments", args, <<"maxResults">>)
    [] name = "docs_delete_document" -> Invoke("deleteDocument", args, <<"documentId">>)
    [] name = "docs_export_pdf" -> Invoke("exportPDF", args, <<"documentId", "outputPath">>)
    [] name = "drive_list_files" ->
         Invoke("listDriveFiles", args, <<"maxResults", "mimeType", "query", "orderBy">>)
    [] name = "drive_get_file" -> Invoke("getDriveFile", args, <<"fileId", "fields">>)
    [] name = "drive_create_file" ->
         Invoke("createDriveFile", args, <<"name", "mimeType", "content", "parents">>)
    [] name = "drive_update_file" ->
         Invoke("updateDriveFile", args,
                <<"fileId", "name", "content", "addParents", "removeParents">>)
    [] name = "drive_delete_file" -> Invoke("deleteDriveFile", args, <<"fileId">>)
    [] name = "drive_copy_file" -> Invoke("copyDriveFile", args, <<"fileId", "name", "parents">>)
    [] name = "drive_move_file" ->
         Invoke("moveDriveFile", args, <<"fileId", "addParents", "removeParents">>)
    [] name = "drive_list_permissions" -> Invoke("listDrivePermissions", args, <<"fileId">>)
    [] name = "drive_create_permission" ->
         Invoke("createDrivePermission", args, <<"fileId", "emailAddress", "role", "type">>)
    [] name = "drive_delete_permission" ->
         Invoke("deleteDrivePermission", args, <<"fileId", "permissionId">>)
    [] name = "drive_list_revisions" -> Invoke("listDriveRevisions", args, <<"fileId">>)
    [] name = "drive_get_revision" -> Invoke("getDriveRevision", args, <<"fileId", "revisionId">>)
    [] name = "drive_delete_revision" ->
         Invoke("deleteDriveRevision", args, <<"fileId", "revisionId">>)
    [] name = "drive_list_comments" -> Invoke("listDriveComments", args, <<"fileId", "maxResults">>)
    [] name = "drive_create_comment" ->
         Invoke("createDriveComment", args, <<"fileId", "content", "quotedFileContent">>)
    [] name = "drive_delete_comment" -> Invoke("deleteDriveComment", args, <<"fileId", "commentId">>)
    [] name = "drive_list_replies" -> Invoke("listDriveReplies", args, <<"fileId", "commentId">>)
    [] name = "drive_create_reply" ->
         Invoke("createDriveReply", args, <<"fileId", "commentId", "content">>)
    [] name = "drive_delete_reply" ->
         Invoke("deleteDriveReply", args, <<"fileId", "commentId", "replyId">>)
    [] OTHER -> NoCall

\* A switch (name) that lacks the case of an advertised operation.
HttpDispatchWithoutExport(name, args) ==
  CASE name = "docs_create_document" -> Invoke("createDocument", args, <<"title">>)
    [] name = "docs_get_document" -> Invoke("getDocument", args, <<"documentId">>)
    [] name = "docs_append_text" -> Invoke("appendText", args, <<"documentId", "text">>)
    [] name = "docs_replace_text" ->
         Invoke("replaceText", args, <<"documentId", "findText", "replaceWithText">>)
    [] name = "docs_list_documents" -> Invoke("listDocuments", args, <<"maxResults">>)
    [] name = "docs_delete_document" -> Invoke("deleteDocument", args, <<"documentId">>)
    [] OTHER -> NoCall

\* switch (name) of the HTTP tools/call case.
HttpDispatch(name, args) ==
  CASE name = "docs_create_document" -> Invoke("createDocument", args, <<"title">>)
    [] name = "docs_get_document" -> Invoke("getDocument", args, <<"documentId">>)
    [] name = "docs_append_text" -> Invoke("appendText", args, <<"documentId", "text">>)
    [] name = "docs_replace_text" ->
         Invoke("replaceText", args, <<"documentId", "findText", "replaceWithText">>)
    [] name = "docs_list_documents" -> Invoke("listDocuments", args, <<"maxResults">>)
    [] name = "docs_delete_document" -> Invoke("deleteDocument", args, <<"documentId">>)
    [] name = "docs_export_pdf" -> Invoke("exportPDF", args, <<"documentId", "outputPath">>)
    [] OTHER -> NoCall

\* The parameters of the provider's listing methods, in the order of their
\* signatures.
ParameterNames(method) ==
  CASE method = "listDocuments" -> <<"maxResults">>
    [] method = "listDriveFiles" -> <<"maxResults", "mimeType", "query", "orderBy">>
    [] method = "listDriveComments" -> <<"fileId", "maxResults">>
    [] OTHER -> <<>>

\* Default parameters that lag behind the catalog.
ParameterDefaultsStale(method) ==
  CASE method = "listDocuments" -> [maxResults |-> 10]
    [] method = "listDriveFiles" -> [maxResults |-> 100, orderBy |-> "name"]
    [] method = "listDriveComments" -> [maxResults |-> 100]
    [] OTHER -> << >>

\* The default parameters the signatures declare: maxResults = 10,
\* maxResults = 50 and orderBy = 'modifiedTime desc', maxResults = 100.
ParameterDefaults(method) ==
  CASE method = "listDocuments" -> [maxResults |-> 10]
    [] method = "listDriveFiles" ->
         [maxResults |-> 50, orderBy |-> "modifiedTime desc"]
    [] method = "listDriveComments" -> [maxResults |-> 100]
    [] OTHER -> << >>

\* The values the parameters of a method are bound to in a call: a default
\* parameter takes its default when the argument passed is undefined.
Bound(call) ==
  [i \in DOMAIN call.args |->
     IF /\ call.args[i] = Undefined
        /\ i \in DOMAIN ParameterNames(call.method)
        /\ ParameterNames(call.method)[i] \in DOMAIN ParameterDefaults(call.method)
     THEN ParameterDefaults(call.method)[ParameterNames(call.method)[i]]
     ELSE call.args[i]]

\* The switch (name) of a transport.
Dispatch(t, name, args) ==
  IF t = "stdio" THEN StdioDispatch(name, args) ELSE HttpDispatch(name, args)

\* The entries a transport's catalog listing returns.
Listing(t) == IF t = "stdio" THEN tools ELSE httpTools

\* The two GoogleDocsService classes of the repository: the one index.ts
\* imports (./google-docs-service.js, built from google-docs-service.ts) and
\* the extended one.
Providers == { "google-docs-service.ts", "part_000" }

\* The public methods of the class in google-docs-service.ts.
DocsMethods ==
  { "createDocument", "getDocument", "appendText", "replaceText",
    "listDocuments", "deleteDocument", "exportPDF" }

\* The methods the extended class adds to them.
DriveMethods ==
  { "listDriveFiles", "getDriveFile", "createDriveFile", "updateDriveFile",
    "deleteDriveFile", "copyDriveFile", "moveDriveFile",
    "listDrivePermissions", "createDrivePermission", "deleteDrivePermission",
    "listDriveRevisions", "getDriveRevision", "deleteDriveRevision",
    "listDriveComments", "createDriveComment", "deleteDriveComment",
    "listDriveReplies", "createDriveReply", "deleteDriveReply" }

\* The methods an instance of a class has.
Methods(p) ==
  IF p = "google-docs-service.ts" THEN DocsMethods
  ELSE DocsMethods \cup DriveMethods

\* The API client a provider method reads after ensureAuthenticated.
ClientOf(method) ==
  IF method \in {"createDocument", "getDocument", "appendText", "replaceText"}
  THEN "docs" ELSE "drive"

(***************************************************************************)
(* Thrown values and provider results                                      *)
(***************************************************************************)

\* A thrown value: `message` is what reading .message gives, `str` what
\* String(value) gives.  kind "Error" is an instance of Error, kind "value"
\* a non-Error value (a thrown string), kind "nullish" is null or undefined,
\* on which reading .message itself throws a TypeError.
NoThrow == [kind |-> "none", message |-> Undefined, str |-> Undefined]
Error(m) == [kind |-> "Error", message |-> m, str |-> "Error: " \o m]
Value(s) == [kind |-> "value", message |-> Undefined, str |-> s]
Nullish == [kind |-> "nullish", message |-> Undefined, str |-> "undefined"]

\* Calling a property that is undefined throws a TypeError.
NotAFunction(method) ==
  Error("getGoogleDocsService(...)." \o method \o " is not a function")

\* What a remote API call can reject with.
RemoteThrows == { Error("Not found"), Value("quota exceeded"), Nullish }

\* What a provider method returns when its remote call succeeds.
Payloads == { "abc123" }


\* JSON.stringify(value) without indentation.
JsonStringifyCompact(v) ==
  IF v = Undefined THEN Undefined
  ELSE "{\"documentId\":\"" \o v \o "\"}"

\* JSON.stringify(value, null, 2) of the object a provider method returns.
JsonStringify(v) ==
  IF v = Undefined THEN Undefined
  ELSE "{\n  \"documentId\": \"" \o v \o "\"\n}"

(***************************************************************************)
(* Responses                                                               *)
(***************************************************************************)

InvalidRequest == -32600
MethodNotFound == -32601
InternalError == -32603

\* The error object as serialised by res.json: a key whose value is
\* undefined is left out.
ErrorObject(code, message) ==
  IF message = Undefined THEN [code |-> code]
  ELSE [code |-> code, message |-> message]


\* An error envelope that also carries a result field.
ErrorEnvelopeWithResult(id, code, message) ==
  [jsonrpc |-> "2.0", id |-> id, error |-> ErrorObject(code, message),
   result |-> "null"]

\* { jsonrpc: '2.0', id, error: { code, message } }
ErrorEnvelope(id, code, message) ==
  [jsonrpc |-> "2.0", id |-> id, error |-> ErrorObject(code, message)]

\* { jsonrpc: '2.0', id, result }
ResultEnvelope(id, result) ==
  [jsonrpc |-> "2.0", id |-> id, result |-> result]

HttpResponse(status, body) == [status |-> status, body |-> body]

\* { content: [ { type: 'text', text } ] }
TextContent(text) == [content |-> << [type |-> "text", text |-> text] >>]


\* A version check that only rejects a different tag and lets a missing one
\* through.
VersionOKMissingAccepted(jsonrpc) == jsonrpc \in {"2.0", Undefined}

\* if (jsonrpc !== '2.0')
VersionOK(jsonrpc) == jsonrpc = "2.0"


\* An unknown-tool message that leaves the name out.
UnknownToolTextNoName(name) == "Unknown tool"

\* `Unknown tool: ${name}`
UnknownToolText(name) == "Unknown tool: " \o Str(name)

\* `Unknown method: ${method}`
UnknownMethodText(method) == "Unknown method: " \o Str(method)


\* A listing that leaves the last registered entry out.
ListToolsResultTruncated(entries) ==
  [tools |-> SubSeq(entries, 1, Len(entries) - 1)]

\* { tools }: the result of a catalog listing, the registered entries as
\* they are.
ListToolsResult(entries) == [tools |-> entries]

\* What a handler run leaves behind: the responses it wrote, and whether an
\* exception escaped the handler.
Responded(r) == [resps |-> <<r>>, escaped |-> FALSE]
Escaped == [resps |-> <<>>, escaped |-> TRUE]


\* A catch block that uses the `id` of the try block, out of scope there.
HttpCatchIdOutOfScope(req) == Undefined

\* The id the HTTP catch block puts in its envelope: req.body.id.
HttpCatchId(req) == req.id


\* An unknown tool answered with the internal-error code.
UnknownToolCodeInternal == InternalError

\* The code the HTTP tools/call default case answers with.
UnknownToolCode == MethodNotFound

\* catch (error) of POST /mcp: message is error.message.
HttpCatch(req, thrown) ==
  IF thrown.kind = "nullish" THEN Escaped
  ELSE Responded(HttpResponse(200,
         ErrorEnvelope(HttpCatchId(req), InternalError, thrown.message)))

\* The tail of POST /mcp after the switch: res.json({ jsonrpc, id, result }).
HttpResult(req, result) == Responded(HttpResponse(200, ResultEnvelope(req.id, result)))


\* An early return that puts the message into a result envelope.
HttpErrorAsResult(status, req, code, message) ==
  Responded(HttpResponse(status, ResultEnvelope(req.id, message)))

\* An early `return res.json(...)` with an error envelope.
HttpError(status, req, code, message) ==
  Responded(HttpResponse(status, ErrorEnvelope(req.id, code, message)))

\* catch (error) of the CallTool handler.
StdioCatch(thrown) ==
  LET errorMessage == IF thrown.kind = "Error" THEN thrown.message ELSE thrown.str
  IN Responded([content |-> << [type |-> "text", text |-> "Error: " \o errorMessage] >>,
                isError |-> TRUE])

\* How a provider call that returned or threw is turned into the handler's
\* outcome, per transport.
Wrap(t, req, thrown, returned) ==
  IF t = "stdio"
  THEN IF thrown.kind = "none" THEN Responded(TextContent(JsonStringify(returned)))
       ELSE StdioCatch(thrown)
  ELSE IF thrown.kind = "none" THEN HttpResult(req, TextContent(JsonStringify(returned)))
       ELSE HttpCatch(req, thrown)

(***************************************************************************)
(* Environment of the process                                              *)
(***************************************************************************)

\* importOK: import('googleapis') resolves.  oauthTokens / serviceKey: the
\* variables GOOGLE_OAUTH_TOKENS / GOOGLE_SERVICE_ACCOUNT_KEY are unset, hold
\* valid JSON or hold invalid JSON.  clientCreds: GOOGLE_CLIENT_ID and
\* GOOGLE_CLIENT_SECRET are both set.  tokenFile: tokens.json is missing,
\* holds an access token, holds none, or is not JSON.
Environments ==
  [importOK : BOOLEAN, oauthTokens : {"unset", "valid", "invalid"},
   serviceKey : {"unset", "valid", "invalid"}, clientCreds : BOOLEAN,
   tokenFile : {"none", "access", "noAccess", "corrupt"}]

\* One environment per path through initializeAuth: the settings a path
\* never reads are held at their defaults.
EnvPool ==
  { e \in Environments :
      /\ (~e.importOK) => (e.oauthTokens = "unset")
      /\ (~e.importOK \/ e.oauthTokens # "unset") => (e.serviceKey = "unset")
      /\ (~e.importOK \/ e.oauthTokens # "unset" \/ e.serviceKey # "unset")
            => e.clientCreds
      /\ (~e.importOK \/ e.oauthTokens # "unset" \/ e.serviceKey # "unset"
            \/ ~e.clientCreds) => (e.tokenFile = "none") }

(***************************************************************************)
(* State                                                                   *)
(***************************************************************************)

VARIABLES
  transport,          \* "stdio" (index.ts) or "http" (openai-mcp-server.js)
  env,                \* the process environment, fixed for the process
  provider,           \* the GoogleDocsService class the process has loaded
  googleDocsService,  \* the module-level handle: "null" or "constructed"
  initialized,        \* GoogleDocsService.initialized
  google,             \* GoogleDocsService.google has been assigned
  oauth2Client,       \* GoogleDocsService.oauth2Client: "unset", "OAuth2", "GoogleAuth"
  accessToken,        \* oauth2Client.credentials.access_token is present
  docs,               \* GoogleDocsService.docs has been assigned
  drive,              \* GoogleDocsService.drive has been assigned
  inflight,           \* bag of tool calls suspended at an await
  last,               \* the handler run that finished last
  initThrew,          \* history: initializeAuth has thrown
  credentialSetups,   \* history: runs of the credential setup of initializeAuth
  lateSetups,         \* history: such runs by calls begun after a throw
  instances,          \* history: evaluations of new GoogleDocsService()
  running             \* the process has not terminated

fixedVars == <<transport, env, provider>>
svcVars == <<initialized, google, oauth2Client, accessToken, docs, drive>>
histVars == <<initThrew, credentialSetups, lateSetups>>
handleVars == <<googleDocsService, instances>>
vars == <<transport, env, provider, googleDocsService, initialized, google, oauth2Client,
          accessToken, docs, drive, inflight, last, initThrew,
          credentialSetups, lateSetups, instances, running>>

NoRequest ==
  [route |-> Undefined, jsonrpc |-> Undefined, id |-> Undefined,
   method |-> Undefined, params |-> FALSE, name |-> Undefined,
   args |-> NoArguments]

\* A handler run: its request, the provider invocations it made, what the
\* provider threw or returned, the responses written, whether an exception
\* escaped the handler, and whether the run began after initializeAuth had
\* thrown.
Run(req, invoked, thrown, returned, outcome, afterThrow) ==
  [done |-> TRUE, req |-> req, invoked |-> invoked, thrown |-> thrown,
   returned |-> returned, resps |-> outcome.resps, escaped |-> outcome.escaped,
   afterThrow |-> afterThrow]

NoRun ==
  [done |-> FALSE, req |-> NoRequest, invoked |-> <<>>, thrown |-> NoThrow,
   returned |-> Undefined, resps |-> <<>>, escaped |-> FALSE,
   afterThrow |-> FALSE]

\* The class of google-docs-service.ts never reads GOOGLE_OAUTH_TOKENS, so
\* with it the variable is held unset.  The HTTP server calls only methods
\* both classes have, where the classes differ in that variable alone, so
\* its runs are those of the extended class.
Init ==
  /\ transport \in {"stdio", "http"}
  /\ env \in EnvPool
  /\ provider \in Providers
  /\ (provider = "google-docs-service.ts") =>
       (transport = "stdio" /\ env.oauthTokens = "unset")
  /\ googleDocsService = IF transport = "http" THEN "constructed" ELSE "null"
  /\ initialized = FALSE
  /\ google = FALSE
  /\ oauth2Client = "unset"
  /\ accessToken = FALSE
  /\ docs = FALSE
  /\ drive = FALSE
  /\ inflight = EmptyBag
  /\ last = NoRun
  /\ initThrew = FALSE
  /\ credentialSetups = 0
  /\ lateSetups = 0
  /\ instances = IF transport = "http" THEN 1 ELSE 0
  /\ running = TRUE

(***************************************************************************)
(* Handlers that answer without calling the provider                       *)
(***************************************************************************)

\* A handler run that ends before any await.
Answer(req, thrown, outcome) ==
  /\ running
  /\ last' = Run(req, <<>>, thrown, Undefined, outcome, initThrew)
  /\ UNCHANGED <<fixedVars, handleVars, svcVars, inflight, histVars, running>>


\* A health check that reports the provider's initialization.
HealthResponseChecksProvider(timestamp) ==
  HttpResponse(IF initThrew THEN 503 ELSE 200,
               [status |-> IF initThrew THEN "unhealthy" ELSE "healthy",
                service |-> "google-docs-mcp", timestamp |-> timestamp])

\* res.json of GET /health: Express answers 200 with the object.
HealthResponse(timestamp) ==
  HttpResponse(200, [status |-> "healthy", service |-> "google-docs-mcp",
                     timestamp |-> timestamp])

\* GET /health.
HttpHealth ==
  /\ transport = "http"
  /\ \E t \in Timestamps :
       Answer(GetRequest("GET /health"), NoThrow, Responded(HealthResponse(t)))

\* GET /: res.json of the server's description.
HttpRoot ==
  /\ transport = "http"
  /\ Answer(GetRequest("GET /"), NoThrow,
            Responded(HttpResponse(200,
              [name |-> "Google Docs MCP Server", version |-> "1.0.0",
               description |-> "MCP server for Google Docs integration"])))

\* POST /mcp, jsonrpc !== '2.0': status 400, Invalid Request.
HttpInvalidVersion ==
  /\ transport = "http"
  /\ \E req \in HttpRequestPool :
       /\ ~VersionOK(req.jsonrpc)
       /\ Answer(req, NoThrow,
                 HttpError(400, req, InvalidRequest, "Invalid Request"))


\* Initialize metadata that reports whether the provider is initialized.
InitializeResultReportsReady ==
  [protocolVersion |-> "2024-11-05", capabilities |-> [tools |-> <<>>],
   serverInfo |-> [name |-> "google-docs-mcp", version |-> "1.0.0"],
   ready |-> initialized]

\* result of the initialize method: an object literal that reads no state.
InitializeResult ==
  [protocolVersion |-> "2024-11-05", capabilities |-> [tools |-> <<>>],
   serverInfo |-> [name |-> "google-docs-mcp", version |-> "1.0.0"]]

\* POST /mcp, case 'initialize'.
HttpInitialize ==
  /\ transport = "http"
  /\ \E req \in HttpRequestPool :
       /\ VersionOK(req.jsonrpc)
       /\ req.method = "initialize"
       /\ Answer(req, NoThrow, HttpResult(req, InitializeResult))

\* POST /mcp, case 'tools/list'.
HttpToolsList ==
  /\ transport = "http"
  /\ \E req \in HttpRequestPool :
       /\ VersionOK(req.jsonrpc)
       /\ req.method = "tools/list"
       /\ Answer(req, NoThrow, HttpResult(req, ListToolsResult(httpTools)))

\* POST /mcp, default case of switch (method).
HttpUnknownMethod ==
  /\ transport = "http"
  /\ \E req \in HttpRequestPool :
       /\ VersionOK(req.jsonrpc)
       /\ req.method \notin {"initialize", "tools/list", "tools/call"}
       /\ Answer(req, NoThrow,
                 HttpError(200, req, MethodNotFound, UnknownMethodText(req.method)))

\* POST /mcp, case 'tools/call' with params undefined: the destructuring
\* throws a TypeError, which the catch block answers.
HttpNoParams ==
  /\ transport = "http"
  /\ \E req \in HttpRequestPool :
       /\ VersionOK(req.jsonrpc)
       /\ req.method = "tools/call"
       /\ ~req.params
       /\ LET thrown == Error("Cannot destructure property 'name' of 'params' as it is undefined.")
          IN Answer(req, thrown, HttpCatch(req, thrown))

\* POST /mcp, case 'tools/call', default case of switch (name).
HttpUnknownTool ==
  /\ transport = "http"
  /\ \E req \in HttpRequestPool :
       /\ VersionOK(req.jsonrpc)
       /\ req.method = "tools/call"
       /\ req.params
       /\ HttpDispatch(req.name, req.args) = NoCall
       /\ Answer(req, NoThrow,
                 HttpError(200, req, UnknownToolCode, UnknownToolText(req.name)))

\* ListTools: the handler returns toolsResponse, built once from tools.
\* A listing that obtains the service first, as the tool calls do.
StdioListToolsConstructs ==
  /\ transport = "stdio"
  /\ running
  /\ IF googleDocsService = "null"
     THEN /\ instances < MaxInstances
          /\ instances' = instances + 1
          /\ googleDocsService' = "constructed"
     ELSE UNCHANGED handleVars
  /\ last' = Run(StdioListRequest, <<>>, NoThrow, Undefined,
                 Responded(ListToolsResult(tools)), initThrew)
  /\ UNCHANGED <<fixedVars, svcVars, inflight, histVars, running>>

\* ListTools: the handler returns the catalog.
StdioListTools ==
  /\ transport = "stdio"
  /\ Answer(StdioListRequest, NoThrow, Responded(ListToolsResult(tools)))

\* CallTool, default case: throw new Error(`Unknown tool: ${name}`), caught
\* by the handler's own catch.
StdioUnknownTool ==
  /\ transport = "stdio"
  /\ \E req \in StdioRequestPool :
       /\ StdioDispatch(req.name, req.args) = NoCall
       /\ LET thrown == Error(UnknownToolText(req.name))
          IN Answer(req, thrown, StdioCatch(thrown))

(***************************************************************************)
(* GoogleDocsService                                                       *)
(***************************************************************************)

\* initializeAuth up to its first await: `if (this.initialized) return;`
\* resolves at once, otherwise the call waits for import('googleapis').
InitializeAuthEntry(init) == IF init THEN "ensure" ELSE "import"


\* An initialized flag that is cleared again when the setup throws.
InitializedResetOnThrow(thrown) == thrown.kind = "none"

\* this.initialized after the import resolved: it is assigned true before
\* the credential setup and nothing resets it when the setup throws.
InitializedAfterSetup(thrown) == TRUE

\* initializeAuth after `this.initialized = true`: the credential branches
\* and the construction of the two API clients.  client and token are the
\* fields before the run; a field keeps its value when the run throws
\* before assigning it.
CredentialSetup(e, client, token) ==
  IF e.oauthTokens # "unset"
  THEN IF e.oauthTokens = "invalid"
       THEN [thrown |-> Error("Invalid GOOGLE_OAUTH_TOKENS format"),
             oauth2Client |-> client, accessToken |-> token, clients |-> FALSE]
       ELSE [thrown |-> NoThrow, oauth2Client |-> "OAuth2",
             accessToken |-> TRUE, clients |-> TRUE]
  ELSE IF e.serviceKey # "unset"
  THEN IF e.serviceKey = "invalid"
       THEN [thrown |-> Error("Invalid GOOGLE_SERVICE_ACCOUNT_KEY format"),
             oauth2Client |-> client, accessToken |-> token, clients |-> FALSE]
       ELSE [thrown |-> NoThrow, oauth2Client |-> "GoogleAuth",
             accessToken |-> FALSE, clients |-> TRUE]
  ELSE IF ~e.clientCreds
  THEN [thrown |-> Error("Google credentials not found. Please set GOOGLE_CLIENT_ID and GOOGLE_CLIENT_SECRET environment variables."),
        oauth2Client |-> client, accessToken |-> token, clients |-> FALSE]
  ELSE IF e.tokenFile = "corrupt"
  THEN [thrown |-> Error("Unexpected token in JSON"),
        oauth2Client |-> "OAuth2", accessToken |-> FALSE, clients |-> FALSE]
  ELSE [thrown |-> NoThrow, oauth2Client |-> "OAuth2",
        accessToken |-> (e.tokenFile = "access"), clients |-> TRUE]

\* An ensureAuthenticated that leaves the missing access token to the
\* remote call.
EnsureAuthenticatedSkipsAuthenticate(e, client, token) ==
  IF e.oauthTokens # "unset" \/ e.serviceKey # "unset" THEN NoThrow
  ELSE IF client = "unset"
  THEN Error("Cannot read properties of undefined (reading 'credentials')")
  ELSE NoThrow

\* ensureAuthenticated after `await this.initializeAuth()`: what it throws.
EnsureAuthenticatedThrows(e, client, token) ==
  IF e.oauthTokens # "unset" \/ e.serviceKey # "unset" THEN NoThrow
  ELSE IF client = "unset"
  THEN Error("Cannot read properties of undefined (reading 'credentials')")
  ELSE IF ~token
  THEN Error("Authentication required. Please visit: <authUrl>")
  ELSE NoThrow


\* Provider methods whose API clients always exist.
UseClientNeverThrows(method, d, dr) == NoThrow

\* A provider method after `await this.ensureAuthenticated()`: reading
\* this.docs.documents or this.drive.files of an unassigned client throws.
UseClientThrows(method, d, dr) ==
  IF (ClientOf(method) = "docs" /\ ~d) \/ (ClientOf(method) = "drive" /\ ~dr)
  THEN Error("Cannot read properties of undefined")
  ELSE NoThrow

(***************************************************************************)
(* Tool calls that reach the provider                                      *)
(***************************************************************************)

InFlight == BagToSet(inflight)

Suspend(c) == inflight' = inflight (+) SetToBag({c})
Move(c, pc) ==
  /\ inflight' = (inflight (-) SetToBag({c})) (+) SetToBag({[c EXCEPT !.pc = pc]})
  /\ UNCHANGED <<last, running>>

\* Whether the process runs on after a handler run.  An exception that
\* escapes the async HTTP handler is an unhandled promise rejection, for
\* which no handler is registered: depending on the runtime's mode for
\* unhandled rejections the process goes on or terminates.
RunningAfter(outcome) == IF outcome.escaped THEN BOOLEAN ELSE {TRUE}

\* The provider call of c threw or returned: the handler wraps it and ends.
Finish(c, thrown, returned) ==
  /\ inflight' = inflight (-) SetToBag({c})
  /\ last' = Run(c.req, c.invoked, thrown, returned,
                 Wrap(transport, c.req, thrown, returned), c.afterThrow)
  /\ running' \in RunningAfter(Wrap(transport, c.req, thrown, returned))


\* A handler that takes a lock: a call starts only when none is suspended.
CallSerialized(req, call) ==
  /\ running
  /\ inflight = EmptyBag
  /\ Suspend([req |-> req, invoked |-> <<call>>,
              pc |-> InitializeAuthEntry(initialized), afterThrow |-> initThrew])
  /\ UNCHANGED <<fixedVars, svcVars, last, histVars, running>>

\* The handler up to its first await: the provider method is invoked and
\* runs into ensureAuthenticated and initializeAuth.
Call(req, call) ==
  /\ running
  /\ BagCardinality(inflight) < MaxCalls
  /\ Suspend([req |-> req, invoked |-> <<call>>,
              pc |-> InitializeAuthEntry(initialized), afterThrow |-> initThrew])
  /\ UNCHANGED <<fixedVars, svcVars, last, histVars, running>>

\* POST /mcp, case 'tools/call' with a name of the switch: the method of
\* the module-level googleDocsService is called.
HttpToolsCall ==
  /\ transport = "http"
  /\ \E req \in HttpRequestPool :
       /\ VersionOK(req.jsonrpc)
       /\ req.method = "tools/call"
       /\ req.params
       /\ HttpDispatch(req.name, req.args) # NoCall
       /\ Call(req, HttpDispatch(req.name, req.args))
       /\ UNCHANGED handleVars


\* A getter that constructs a service on every call.
NeedsConstructionAlways(handle) == TRUE

\* getGoogleDocsService(): if (!googleDocsService)
NeedsConstruction(handle) == handle = "null"

\* getGoogleDocsService(): the service is constructed when the handle is
\* null, and the handle is returned.
GetGoogleDocsService ==
  IF NeedsConstruction(googleDocsService)
  THEN /\ instances < MaxInstances
       /\ instances' = instances + 1
       /\ googleDocsService' = "constructed"
  ELSE UNCHANGED handleVars

\* CallTool with a name of the switch: getGoogleDocsService() constructs the
\* service on first use, then its method is called.
StdioCallTool ==
  /\ transport = "stdio"
  /\ \E req \in StdioRequestPool :
       /\ StdioDispatch(req.name, req.args) # NoCall
       /\ StdioDispatch(req.name, req.args).method \in Methods(provider)
       /\ GetGoogleDocsService
       /\ Call(req, StdioDispatch(req.name, req.args))

\* CallTool with a name of the switch whose method the loaded class does not
\* have: getGoogleDocsService() returns the service, calling the missing
\* method throws a TypeError, and the handler's catch answers.
StdioMissingMethod ==
  /\ transport = "stdio"
  /\ \E req \in StdioRequestPool :
       LET call == StdioDispatch(req.name, req.args)
           thrown == NotAFunction(call.method)
       IN /\ running
          /\ call # NoCall
          /\ call.method \notin Methods(provider)
          /\ GetGoogleDocsService
          /\ last' = Run(req, <<>>, thrown, Undefined, StdioCatch(thrown),
                         initThrew)
          /\ UNCHANGED <<fixedVars, svcVars, inflight, histVars, running>>

\* import('googleapis') settles for a call that saw initialized = false.
\* Rejected: initializeAuth throws before touching the service.  Resolved:
\* google and initialized are assigned and the credential setup runs to its
\* end or to its throw, without another await.
ImportDone ==
  \E c \in InFlight :
    /\ running
    /\ c.pc = "import"
    /\ IF ~env.importOK
       THEN /\ Finish(c, Error("Cannot find package 'googleapis'"), Undefined)
            /\ initThrew' = TRUE
            /\ UNCHANGED <<svcVars, credentialSetups, lateSetups>>
       ELSE LET s == CredentialSetup(env, oauth2Client, accessToken)
            IN /\ google' = TRUE
               /\ initialized' = InitializedAfterSetup(s.thrown)
               /\ oauth2Client' = s.oauth2Client
               /\ accessToken' = s.accessToken
               /\ docs' = (docs \/ s.clients)
               /\ drive' = (drive \/ s.clients)
               /\ credentialSetups' = credentialSetups + 1
               /\ lateSetups' = lateSetups + (IF c.afterThrow THEN 1 ELSE 0)
               /\ IF s.thrown.kind # "none"
                  THEN /\ Finish(c, s.thrown, Undefined)
                       /\ initThrew' = TRUE
                  ELSE /\ Move(c, "ensure")
                       /\ UNCHANGED initThrew
    /\ UNCHANGED <<fixedVars, handleVars>>

\* ensureAuthenticated resumes after initializeAuth.
EnsureAuthenticated ==
  \E c \in InFlight :
    /\ running
    /\ c.pc = "ensure"
    /\ LET thrown == EnsureAuthenticatedThrows(env, oauth2Client, accessToken)
       IN IF thrown.kind # "none"
          THEN Finish(c, thrown, Undefined)
          ELSE Move(c, "client")
    /\ UNCHANGED <<fixedVars, handleVars, svcVars, histVars>>

\* The provider method resumes after ensureAuthenticated and issues its
\* remote call through this.docs or this.drive.
UseClient ==
  \E c \in InFlight :
    /\ running
    /\ c.pc = "client"
    /\ LET thrown == UseClientThrows(c.invoked[1].method, docs, drive)
       IN IF thrown.kind # "none"
          THEN Finish(c, thrown, Undefined)
          ELSE Move(c, "remote")
    /\ UNCHANGED <<fixedVars, handleVars, svcVars, histVars>>

\* exportPDF after the export response arrived: fs.createWriteStream throws
\* at once for a path that is undefined, which rejects the method's promise.
CreateWriteStreamThrows(outputPath) ==
  IF outputPath = Undefined
  THEN Error("The \"path\" argument must be of type string or an instance of Buffer or URL. Received undefined")
  ELSE NoThrow

\* The remote call settles: the method returns a value or rejects.  The
\* value of exportPDF is the outcome of piping the response into the file.
RemoteDone ==
  \E c \in InFlight :
    /\ running
    /\ c.pc = "remote"
    /\ \/ \E t \in RemoteThrows : Finish(c, t, Undefined)
       \/ /\ c.invoked[1].method # "exportPDF"
          /\ \E v \in Payloads : Finish(c, NoThrow, v)
       \/ /\ c.invoked[1].method = "exportPDF"
          /\ LET thrown == CreateWriteStreamThrows(c.invoked[1].args[2])
             IN IF thrown.kind # "none"
                THEN Finish(c, thrown, Undefined)
                ELSE \E v \in Payloads : Finish(c, NoThrow, v)
    /\ UNCHANGED <<fixedVars, handleVars, svcVars, histVars>>

\* exportPDF, the file cannot be opened or written (its directory does not
\* exist, the disk is full): the write stream emits 'error', on which the
\* method registered no listener, so the event is thrown as an uncaught
\* exception and the process terminates with the call unanswered.
WriteStreamError ==
  \E c \in InFlight :
    /\ running
    /\ c.pc = "remote"
    /\ c.invoked[1].method = "exportPDF"
    /\ CreateWriteStreamThrows(c.invoked[1].args[2]).kind = "none"
    /\ running' = FALSE
    /\ UNCHANGED <<fixedVars, handleVars, svcVars, histVars, inflight, last>>

Next ==
  \/ HttpHealth
  \/ HttpRoot
  \/ HttpInvalidVersion
  \/ HttpInitialize
  \/ HttpToolsList
  \/ HttpUnknownMethod
  \/ HttpNoParams
  \/ HttpUnknownTool
  \/ HttpToolsCall
  \/ StdioListTools
  \/ StdioUnknownTool
  \/ StdioCallTool
  \/ StdioMissingMethod
  \/ ImportDone
  \/ EnsureAuthenticated
  \/ UseClient
  \/ RemoteDone
  \/ WriteStreamError

Spec == Init /\ [][Next]_vars

TypeOK ==
  /\ transport \in {"stdio", "http"}
  /\ env \in EnvPool
  /\ provider \in Providers
  /\ googleDocsService \in {"null", "constructed"}
  /\ initialized \in BOOLEAN /\ google \in BOOLEAN
  /\ oauth2Client \in {"unset", "OAuth2", "GoogleAuth"}
  /\ accessToken \in BOOLEAN /\ docs \in BOOLEAN /\ drive \in BOOLEAN
  /\ BagCardinality(inflight) <= MaxCalls
  /\ credentialSetups \in 0..MaxCalls
  /\ instances \in 0..MaxInstances
  /\ running \in BOOLEAN

(***************************************************************************)
(* Properties                                                              *)
(***************************************************************************)

\* The finished run answered a POST /mcp request.  The finished run is a
\* tool call: on HTTP a well-versioned tools/call
\* with params, on stdio a CallTool request.
PostMcp == last.done /\ transport = "http" /\ last.req.route = "POST /mcp"

ToolCall ==
  /\ last.done
  /\ last.req.method = "tools/call"
  /\ transport = "http" => (last.req.jsonrpc = "2.0" /\ last.req.params)

\* The response is a Failure of its transport.
IsFailure(resp) ==
  IF transport = "stdio"
  THEN "isError" \in DOMAIN resp /\ resp.isError
  ELSE "error" \in DOMAIN resp.body

\* The response carries a message text.
HasMessage(resp) ==
  IF transport = "stdio"
  THEN resp.content[1].text # Undefined
  ELSE "error" \in DOMAIN resp.body /\ "message" \in DOMAIN resp.body.error

\* The message text of a Failure.
MessageOf(resp) ==
  IF transport = "stdio" THEN resp.content[1].text ELSE resp.body.error.message

\* The provider failed for a known tool in the finished run.
ProviderFailed == last.done /\ last.invoked # <<>> /\ last.thrown.kind # "none"

\* C1: a tool call naming an operation outside the transport's catalog ends
\* in one Failure whose message contains "Unknown tool: <name>", it invokes
\* no provider method, and every call that does reach the provider names a
\* catalog operation.
C1_UnknownToolFails ==
  /\ (ToolCall /\ last.req.name \notin Catalog(transport)) =>
       /\ last.invoked = <<>>
       /\ Len(last.resps) = 1
       /\ IsFailure(last.resps[1])
       /\ HasMessage(last.resps[1])
       /\ \E prefix \in {"", "Error: "} :
            MessageOf(last.resps[1])
              = prefix \o "Unknown tool: " \o Str(last.req.name)
  /\ (last.done /\ last.invoked # <<>>) => last.req.name \in Catalog(transport)
  /\ \A c \in InFlight : c.req.name \in Catalog(transport)

C1_Witness ==
  /\ ToolCall
  /\ last.req.name = "docs_frobnicate"
  /\ Len(last.resps) = 1
  /\ IsFailure(last.resps[1])

\* C2: no handler run lets an exception escape, and whenever something was
\* thrown during the run the handler wrote one Failure carrying a message.
C2_NeverThrowsPastBoundary ==
  last.done =>
    /\ ~last.escaped
    /\ (last.thrown.kind # "none") =>
         /\ Len(last.resps) = 1
         /\ IsFailure(last.resps[1])
         /\ HasMessage(last.resps[1])

\* C3: every finished handler run has written exactly one response.
C3_ExactlyOneResult == last.done => Len(last.resps) = 1

\* C4: an HTTP envelope carries exactly one of result and error; a stdio
\* result has isError exactly when the call failed, and a successful one is
\* the serialised payload without an isError flag.
C4_SuccessXorFailure ==
  last.done =>
    \A i \in DOMAIN last.resps :
      LET resp == last.resps[i]
      IN IF transport = "http"
         THEN PostMcp =>
                (("result" \in DOMAIN resp.body) # ("error" \in DOMAIN resp.body))
         ELSE /\ IsFailure(resp) <=> (last.thrown.kind # "none")
              /\ (ToolCall /\ last.thrown.kind = "none") =>
                   /\ "isError" \notin DOMAIN resp
                   /\ resp.content[1].text = JsonStringify(last.returned)

C4_Witness ==
  /\ transport = "http"
  /\ ProviderFailed
  /\ Len(last.resps) = 1
  /\ "error" \in DOMAIN last.resps[1].body

\* C5: when the provider call of a known tool fails, the Failure's message
\* is the thrown value's message, or its string conversion when it has no
\* message (the stdio text puts "Error: " in front of it).
C5_ProviderMessage ==
  ProviderFailed =>
    LET expected == IF last.thrown.message # Undefined
                    THEN last.thrown.message ELSE last.thrown.str
    IN /\ Len(last.resps) = 1
       /\ HasMessage(last.resps[1])
       /\ MessageOf(last.resps[1])
            = (IF transport = "stdio" THEN "Error: " \o expected ELSE expected)

\* C6: a POST /mcp body whose jsonrpc is missing or not "2.0" is answered
\* with code -32600 whatever else it holds, it invokes nothing, and no call
\* that reached the provider came from such a body.
C6_VersionRejected ==
  /\ (PostMcp /\ last.req.jsonrpc # "2.0") =>
       /\ last.invoked = <<>>
       /\ Len(last.resps) = 1
       /\ "error" \in DOMAIN last.resps[1].body
       /\ last.resps[1].body.error.code = -32600
  /\ \A c \in InFlight : c.req.jsonrpc = "2.0"

C6_Witness ==
  /\ last.done /\ transport = "http"
  /\ last.req.jsonrpc = Undefined
  /\ last.req.method = "tools/call" /\ last.req.params
  /\ Len(last.resps) = 1
  /\ last.resps[1].status = 400

\* C7: every POST /mcp response carries the id of the request it answers,
\* on every path and whatever other requests are in flight.
C7_IdEchoed ==
  PostMcp =>
    \A i \in DOMAIN last.resps : last.resps[i].body.id = last.req.id

C7_Witness ==
  /\ transport = "http"
  /\ ProviderFailed
  /\ Len(last.resps) = 1
  /\ last.req.id = "id2"
  /\ \E c \in InFlight : c.req.id = "id1" /\ c.pc = "remote"

\* The finished HTTP run failed at dispatch level: an unknown method, or a
\* tools/call naming an unknown tool.
DispatchFailed ==
  /\ last.done /\ transport = "http" /\ last.req.jsonrpc = "2.0"
  /\ \/ last.req.method \notin {"initialize", "tools/list", "tools/call"}
     \/ /\ last.req.method = "tools/call" /\ last.req.params
        /\ last.req.name \notin Catalog("http")

C9_SingleInitialization == credentialSetups <= 1

\* The initialization state of the provider.
InitState ==
  IF ~initialized THEN "Uninitialized"
  ELSE IF docs /\ drive THEN "Ready" ELSE "Failed"

\* C10: the initialization state only ever changes out of Uninitialized, so
\* it becomes Ready at most once, and no call begun after initializeAuth
\* threw runs the credential setup.
C10_InitializeOnceNoRetry ==
  [][/\ (InitState # "Uninitialized") => (InitState' = InitState)
     /\ lateSetups' = lateSetups]_vars

C10_Witness ==
  /\ initThrew
  /\ InitState = "Failed"
  /\ \E c \in InFlight : c.afterThrow /\ c.pc = "client"

\* C11: a tool call begun after initializeAuth has thrown ends in exactly one
\* Failure; none returns a Success.
C11_FailedStaysFailed ==
  (ToolCall /\ last.afterThrow) =>
    /\ Len(last.resps) = 1
    /\ IsFailure(last.resps[1])

C11_Witness ==
  /\ ToolCall /\ last.afterThrow
  /\ initialized
  /\ last.invoked # <<>>
  /\ last.thrown = Error("Cannot read properties of undefined")
  /\ Len(last.resps) = 1
  /\ IsFailure(last.resps[1])

\* The finished run is a catalog listing that was answered.
ListCall ==
  /\ last.done
  /\ last.req.jsonrpc = "2.0"
  /\ last.req.method = "tools/list"
  /\ Len(last.resps) = 1

\* The entries in the response of a catalog listing.
ListedTools(resp) ==
  IF transport = "stdio" THEN resp.tools ELSE resp.body.result.tools

\* The transport the process does not run.
OtherTransport == IF transport = "stdio" THEN "http" ELSE "stdio"

\* C12: the two transports agree: a catalog listing returns the entries the
\* other transport lists, and a tool call invokes exactly what the other
\* transport's dispatch invokes for the same name and arguments (nothing
\* when the name is unknown there).
C12_TransportsAgree ==
  /\ ListCall => ListedTools(last.resps[1]) = Listing(OtherTransport)
  /\ ToolCall =>
       LET call == Dispatch(OtherTransport, last.req.name, last.req.args)
       IN last.invoked = (IF call = NoCall THEN <<>> ELSE <<call>>)

\* The operation names a listing and a dispatch are compared over: every
\* registered name of either transport and every name of the request pool.
NameUniverse == Names(tools) \cup Names(httpTools) \cup NamePool

\* C13: a catalog listing holds, for every operation name, exactly one entry
\* when the transport's dispatch accepts the name and none otherwise, and
\* every entry is the registered one, with its name, description and
\* parameter schema.
C13_ListingMatchesDispatch ==
  ListCall =>
    LET listed == ListedTools(last.resps[1])
    IN /\ \A n \in NameUniverse :
            Cardinality({ i \in DOMAIN listed : listed[i].name = n })
              = (IF Dispatch(transport, n, NoArguments) # NoCall THEN 1 ELSE 0)
       /\ Names(listed) \subseteq NameUniverse
       /\ Len(listed) = Len(Listing(transport))
       /\ \A i \in DOMAIN listed :
            /\ {"name", "description", "inputSchema"} \subseteq DOMAIN listed[i]
            /\ listed[i] = Listing(transport)[i]

C13_Witness ==
  /\ ListCall
  /\ transport = "stdio"
  /\ Len(ListedTools(last.resps[1])) = 26
  /\ ListedTools(last.resps[1])[26].name = "drive_delete_reply"

\* The finished run is an initialize request that was answered.
InitializeCall ==
  /\ last.done
  /\ transport = "http"
  /\ last.req.jsonrpc = "2.0"
  /\ last.req.method = "initialize"
  /\ Len(last.resps) = 1

\* C14: every initialize request is answered with one and the same metadata
\* and every catalog listing with the registered entries in registration
\* order, in every state the tool calls made before can leave the process
\* in; so repeated requests get identical answers.
C14_RepeatableMetadata ==
  /\ InitializeCall =>
       last.resps[1].body.result
         = [protocolVersion |-> "2024-11-05",
            capabilities |-> [tools |-> <<>>],
            serverInfo |-> [name |-> "google-docs-mcp", version |-> "1.0.0"]]
  /\ ListCall =>
       ListedTools(last.resps[1])
         = (IF transport = "stdio" THEN tools ELSE httpTools)

C14_Witness ==
  /\ InitializeCall
  /\ initialized
  /\ initThrew
  /\ \E c \in InFlight : c.pc = "client"

\* C15: the service is constructed at most once in a process, the handle
\* holds it from then on, and every tool call that reaches the provider,
\* suspended or finished, runs on that one instance.
C15_SingleInstance ==
  /\ instances <= 1
  /\ (googleDocsService = "constructed") <=> (instances = 1)
  /\ (InFlight # {}) => (instances = 1)
  /\ (last.done /\ last.invoked # <<>>) => (instances = 1)

C15_Witness ==
  /\ transport = "stdio"
  /\ instances = 1
  /\ last.done /\ last.invoked # <<>>
  /\ BagCardinality(inflight) = 2

\* The finished run is a tool call naming an operation of the transport's
\* catalog.
KnownToolCall == ToolCall /\ last.req.name \in Catalog(transport)

\* C16: a tool call for a known tool invokes its provider method exactly
\* once, while it is suspended and when it has finished, and a call whose
\* provider method failed wrote its one Failure without a second attempt.
C16_SingleAttempt ==
  /\ \A c \in InFlight : Len(c.invoked) = 1
  /\ KnownToolCall => Len(last.invoked) = 1
  /\ ProviderFailed => (Len(last.invoked) = 1 /\ Len(last.resps) <= 1)

\* The required parameters of a catalog entry (none when the key is absent).
Required(entry) ==
  IF "required" \in DOMAIN entry.inputSchema
  THEN Range(entry.inputSchema.required) ELSE {}

\* The entry the transport registered under a name.
EntryOf(name) ==
  LET entries == Listing(transport)
  IN entries[CHOOSE i \in DOMAIN entries : entries[i].name = name]

\* Some required argument of the finished tool call is missing.
MissingRequired ==
  \E k \in Required(EntryOf(last.req.name)) : Get(last.req.args, k) = Undefined

\* C17: a tool call for a known tool reaches its provider method whatever
\* arguments it carries: with a required argument missing or no arguments
\* mapping at all the method is still invoked, every argument the request
\* does not carry is passed as undefined, and a failure of such a call was
\* thrown by the provider.
C17_PermissiveDispatch ==
  KnownToolCall =>
    /\ Len(last.invoked) = 1
    /\ last.invoked[1].method
         = Dispatch(transport, last.req.name, NoArguments).method
    /\ (~last.req.args.defined) =>
         \A i \in DOMAIN last.invoked[1].args :
           last.invoked[1].args[i] = Undefined
    /\ (MissingRequired /\ last.thrown.kind # "none") => ProviderFailed

\* The provider method of the finished tool call returned a value.
ProviderReturned ==
  KnownToolCall /\ last.invoked # <<>> /\ last.thrown.kind = "none"

\* The result object of a response: on stdio the handler's return value, on
\* HTTP the result field of the envelope.
ResultOf(resp) == IF transport = "stdio" THEN resp ELSE resp.body.result

\* C18: when the provider method returns a value, the tool call is answered
\* once, with a Success whose result holds only a content list of one item
\* of type text, the text being the returned value as JSON indented by two
\* spaces; stdio and HTTP results have this same shape.
C18_SuccessIsPrettyJson ==
  ProviderReturned =>
    /\ Len(last.resps) = 1
    /\ ~IsFailure(last.resps[1])
    /\ (transport = "http") => ("result" \in DOMAIN last.resps[1].body)
    /\ DOMAIN ResultOf(last.resps[1]) = {"content"}
    /\ ResultOf(last.resps[1]).content
         = << [type |-> "text",
               text |-> "{\n  \"documentId\": \"" \o last.returned \o "\"\n}"] >>

C18_Witness ==
  /\ ProviderReturned
  /\ transport = "http"
  /\ last.returned = "abc123"
  /\ Len(last.resps) = 1
  /\ last.resps[1].body.result.content[1].type = "text"

\* C19: the loaded provider class has the method that the dispatch calls
\* for every catalog operation, so no tool call for a known tool fails with
\* the TypeError of calling a method that does not exist.
C19_MethodPerEntry ==
  KnownToolCall =>
    LET method == Dispatch(transport, last.req.name, last.req.args).method
    IN /\ method \in Methods(provider)
       /\ last.thrown # NotAFunction(method)

\* C20: the process never terminates because of a request: whatever calls
\* failed, it is still running and takes the next request.  (Startup
\* failures and interrupt signals are outside the requests modelled.)
C20_ProcessSurvives == running

\* The finished HTTP run had a valid version tag and either a method that
\* is none of initialize, tools/list and tools/call, or a tools/call
\* without params.
MalformedOrUnknownMethod ==
  /\ last.done /\ transport = "http" /\ last.req.jsonrpc = "2.0"
  /\ \/ last.req.method \notin {"initialize", "tools/list", "tools/call"}
     \/ (last.req.method = "tools/call" /\ ~last.req.params)

\* C21: a well-versioned POST /mcp body with an unknown method, or a
\* tools/call without params, is answered with one error envelope (no
\* result) and invokes no provider method; every call that is suspended in
\* the provider came from a tools/call with params.
C21_RejectedBeforeProvider ==
  /\ MalformedOrUnknownMethod =>
       /\ last.invoked = <<>>
       /\ Len(last.resps) = 1
       /\ "error" \in DOMAIN last.resps[1].body
       /\ "result" \notin DOMAIN last.resps[1].body
  /\ (transport = "http") =>
       \A c \in InFlight : c.req.method = "tools/call" /\ c.req.params

C21_Witness ==
  /\ MalformedOrUnknownMethod
  /\ last.req.method = "resources/list"
  /\ Len(last.resps) = 1
  /\ last.resps[1].body.error.code = -32601
  /\ InFlight # {}

\* C22: on the stdio transport a tool call is resolved before the next
\* request is taken, so at no time are two calls suspended together.
C22_StdioOneAtATime ==
  (transport = "stdio") => BagCardinality(inflight) <= 1

\* The suspended call c can take its next step now: some step of the
\* server resumes it (it moves on or finishes).
CanStep(c) ==
  ENABLED /\ \/ ImportDone
             \/ EnsureAuthenticated
             \/ UseClient
             \/ RemoteDone
             \/ WriteStreamError
          /\ CopiesIn(c, inflight') < CopiesIn(c, inflight)

\* C23: on the HTTP transport nothing orders concurrent calls: while the
\* server runs, every suspended call can take its next step whatever other
\* calls are suspended, so of two calls waiting for their remote call
\* either can complete first, and a further tools/call is accepted while
\* others are in flight.
C23_NoOrderingHttp ==
  (transport = "http" /\ running) =>
    /\ \A c \in InFlight : CanStep(c)
    /\ (BagCardinality(inflight) < MaxCalls) => ENABLED HttpToolsCall

C23_Witness ==
  /\ transport = "http" /\ running
  /\ \E c1, c2 \in InFlight :
       /\ c1.req.id = "id1" /\ c2.req.id = "id2"
       /\ c1.pc = "remote" /\ c2.pc = "remote"
       /\ CanStep(c1) /\ CanStep(c2)

\* The finished run answered GET /health.
HealthCall == last.done /\ last.req.route = "GET /health"

\* C24: while the HTTP server runs, GET /health can be answered in every
\* state, and each of its answers has status 200 and a payload with status
\* "healthy", the service name and a timestamp, whatever the state of the
\* provider and the calls in flight.
C24_HealthAlways200 ==
  /\ (transport = "http" /\ running) => ENABLED HttpHealth
  /\ HealthCall =>
       /\ Len(last.resps) = 1
       /\ last.resps[1].status = 200
       /\ DOMAIN last.resps[1].body = {"status", "service", "timestamp"}
       /\ last.resps[1].body.status = "healthy"

C24_Witness ==
  /\ HealthCall
  /\ initThrew /\ last.afterThrow
  /\ InFlight # {}
  /\ last.resps[1].status = 200

\* The run r answered initialize, the catalog listing, GET /health or GET /.
ReadOnlyRun(r) ==
  /\ r.done
  /\ \/ r.req.route \in {"GET /health", "GET /"}
     \/ /\ r.req.jsonrpc = "2.0"
        /\ r.req.method \in {"initialize", "tools/list"}

\* C25: a step that answers initialize, the catalog listing, GET /health or
\* GET / invokes no provider method and leaves the provider's state, the
\* handle to the provider and the calls in flight as they were.
C25_ReadOnlyOperations ==
  [][ (last' # last /\ ReadOnlyRun(last')) =>
        /\ last'.invoked = <<>>
        /\ UNCHANGED <<svcVars, handleVars, histVars, inflight, running>> ]_vars

C25_Witness ==
  \/ /\ ReadOnlyRun(last) /\ last.req.route = "GET /"
     /\ InFlight # {} /\ initialized /\ last.invoked = <<>>
  \/ /\ ReadOnlyRun(last) /\ transport = "stdio"
     /\ googleDocsService = "null" /\ last.invoked = <<>>

\* The properties of a catalog entry that declare a default.
Defaulted(entry) ==
  { k \in DOMAIN entry.inputSchema.properties :
      "default" \in DOMAIN entry.inputSchema.properties[k] }

\* The value the provider's parameter named k is bound to when transport t
\* dispatches a call of the entry with the arguments args.
BoundTo(t, entry, args, k) ==
  LET call == Dispatch(t, entry.name, args)
      names == ParameterNames(call.method)
  IN IF \E i \in DOMAIN names : names[i] = k
     THEN Bound(call)[CHOOSE i \in DOMAIN names : names[i] = k]
     ELSE Undefined

\* The finished run called a listing method the provider has without the
\* arguments its schema gives defaults for.
DefaultedCall ==
  /\ KnownToolCall /\ last.invoked # <<>>
  /\ last.invoked[1].method \in Methods(provider)
  /\ Defaulted(EntryOf(last.req.name)) # {}

\* For every entry of either catalog, every property with a default and
\* every arguments object without it, the parameter is bound to the default
\* the entry declares.
CatalogDefaultsAgree ==
  \A t \in {"stdio", "http"} : \A i \in DOMAIN Listing(t) :
    \A k \in Defaulted(Listing(t)[i]) : \A args \in ArgsPool :
      (Get(args, k) = Undefined) =>
        BoundTo(t, Listing(t)[i], args, k)
          = Listing(t)[i].inputSchema.properties[k].default

\* C26: when an argument with a schema default is absent from the call, the
\* provider's parameter is bound to the default the catalog advertises: for
\* every entry of either catalog, every property with a default and every
\* arguments object without it, and in particular for every finished call.
C26_DefaultsAgree ==
  /\ CatalogDefaultsAgree
  /\ DefaultedCall =>
       \A k \in Defaulted(EntryOf(last.req.name)) :
         (Get(last.req.args, k) = Undefined) =>
           /\ BoundTo(transport, EntryOf(last.req.name),
                      last.req.args, k)
                = EntryOf(last.req.name).inputSchema.properties[k].default
           /\ Dispatch(transport, last.req.name, last.req.args) = last.invoked[1]

C26_Witness ==
  /\ DefaultedCall
  /\ last.req.name = "drive_list_files"
  /\ last.thrown.kind = "none"
  /\ last.invoked[1].args = <<Undefined, Undefined, Undefined, Undefined>>
  /\ Bound(last.invoked[1])[1] = 50
  /\ Bound(last.invoked[1])[4] = "modifiedTime desc"

\* The messages of the unknown-tool path, as either transport words them.
UnknownToolMessages ==
  { prefix \o UnknownToolText(n) : prefix \in {"", "Error: "}, n \in NameUniverse }

\* The finished run answered with the message of the unknown-tool path.
EndsInUnknownTool ==
  /\ last.done
  /\ \E i \in DOMAIN last.resps :
       /\ HasMessage(last.resps[i])
       /\ MessageOf(last.resps[i]) \in UnknownToolMessages

\* Every name a transport's listing holds has a case in its dispatch.
AdvertisedNamesDispatched ==
  \A t \in {"stdio", "http"} : \A i \in DOMAIN Listing(t) : \A args \in ArgsPool :
    Dispatch(t, Listing(t)[i].name, args) # NoCall

\* C27: in each transport every name the catalog listing advertises has a
\* case in that transport's dispatch, and no finished call naming an
\* advertised tool was answered with "Unknown tool".
C27_AdvertisedIsDispatched ==
  /\ AdvertisedNamesDispatched
  /\ (ToolCall /\ last.req.name \in Catalog(transport)) =>
       ~EndsInUnknownTool

C27_Witness ==
  /\ ToolCall /\ last.req.name \in Catalog(transport)
  /\ \/ /\ provider = "google-docs-service.ts"
        /\ last.req.name = "drive_list_files"
        /\ last.thrown = NotAFunction("listDriveFiles")
     \/ /\ transport = "http"
        /\ last.req.name = "docs_export_pdf"
        /\ last.thrown.kind = "none"
  /\ ~EndsInUnknownTool

\* C28: a call that got past ensureAuthenticated and is about to use the
\* docs or drive client finds both clients constructed, and whenever the
\* provider is initialized and no initialization has thrown the clients are
\* set.
C28_ClientsSetPastEnsure ==
  /\ \A c \in InFlight : (c.pc \in {"client", "remote"}) => (docs /\ drive)
  /\ (initialized /\ ~initThrew) => (docs /\ drive)

\* The error authenticate() throws.
AuthenticationRequired == Error("Authentication required. Please visit: <authUrl>")

\* The OAuth2 fallback of initializeAuth, and a token file that holds no
\* access token.
Fallback == env.oauthTokens = "unset" /\ env.serviceKey = "unset"
NoAccessToken == env.tokenFile # "access"

\* What initializeAuth itself throws in some environment.
InitializeAuthThrows ==
  ({ CredentialSetup(e, "unset", FALSE).thrown : e \in EnvPool }
     \cup { Error("Cannot find package 'googleapis'") }) \ { NoThrow }

\* The finished run called a provider method.
ProviderRun == ToolCall /\ last.invoked # <<>>

\* A call past ensureAuthenticated: the provider is initialized and
\* ensureAuthenticated has nothing to throw.
PastEnsureAuthenticated ==
  \A c \in InFlight :
    (c.pc \in {"client", "remote"}) =>
      /\ initialized
      /\ EnsureAuthenticatedThrows(env, oauth2Client, accessToken) = NoThrow

====
